---------------------------- MODULE Spec2Model ----------------------------
(***************************************************************************)
(* A model of stattrap/stats.py: the counter family Counter ->             *)
(* MinMaxAvgCounter -> StdDevCounter -> MicrosecondCounter and the         *)
(* registry ElapsedTimeStats, driven by several recording threads and one  *)
(* reporting thread.                                                       *)
(*                                                                         *)
(* The module is Python 2 (xrange, unicode, list-returning keys()), so `/` *)
(* on two ints is floor division.  Samples are ints (a raw microsecond     *)
(* count, or timedelta.microseconds), so all arithmetic here is integer    *)
(* arithmetic and `\div` (floor division) stands for `/`.                  *)
(*                                                                         *)
(* Threads interleave at statement granularity.  A `with self._lock:`      *)
(* block is entered by its first statement (guard: the lock is free) and   *)
(* left by its last one; the statements in between are separate steps, so  *)
(* code that reads the fields without the lock sees the states in between. *)
(***************************************************************************)
EXTENDS Integers, Sequences, FiniteSets, TLC

(* ------------------------------ bounds -------------------------------- *)

\* number of threads that call record_delta
NumThreads == 2

\* number of record_delta calls made in a run by concurrent threads
MaxCalls == 2

\* number of record_delta calls made in a run by one thread alone
MaxSeqCalls == 3

\* number of Counter.record calls made in a run on a Counter of its own
MaxCounterCalls == 4

\* number of record_delta calls made in a run by one thread alone, with
\* arguments of every type
MaxArgCalls == 2

\* number of record_delta calls made in a run by concurrent threads for one
\* name
MaxVarCalls == 3

\* number of times the reporting thread calls __repr__ of the registry
MaxSnapshots == 1

\* the clock (datetime.datetime.now()) runs from 0 to MaxClock and then stays
MaxClock == 1

Threads == 1 .. NumThreads

\* event names, in ascending order
NameSeq == <<"a", "b">>

Names == {NameSeq[i] : i \in 1 .. Len(NameSeq)}

\* samples passed to record_delta
Values == {-1, 0, 2}

\* the argument `delta` of record_delta, when it is the int v
Number(v) ==
  [kind |-> "number", value |-> v, days |-> 0, seconds |-> 0,
   microseconds |-> 0]

\* the argument `delta` of record_delta, when it is the datetime.timedelta
\* of d days, s seconds and us microseconds (the three fields timedelta keeps)
Timedelta(d, s, us) ==
  [kind |-> "timedelta", value |-> 0, days |-> d, seconds |-> s,
   microseconds |-> us]

\* the argument `delta` of record_delta, when it is a str
NotNumber ==
  [kind |-> "str", value |-> 0, days |-> 0, seconds |-> 0, microseconds |-> 0]

\* ints passed to record_delta
RawDeltas == {Number(v) : v \in Values}

\* the int passed to record_delta while the reporting thread runs
ReportDeltas == {Number(2)}

\* ints passed to record_delta by the threads that share one name
VarDeltas == {Number(0), Number(1), Number(2)}

\* timedeltas passed to record_delta: 2 microseconds, and 1 second
Timedeltas == {Timedelta(0, 0, 2), Timedelta(0, 1, 0)}

\* arguments of record_delta that are neither
BadDeltas == {NotNumber}

\* if isinstance(delta, datetime.timedelta): delta = delta.microseconds
AsSample(delta) ==
  IF delta.kind = "timedelta" THEN Number(delta.microseconds) ELSE delta

(* --------------------------- program state ---------------------------- *)

VARIABLES
  clock,     \* the last value datetime.datetime.now() returned
  started,   \* ElapsedTimeStats.started
  last,      \* ElapsedTimeStats.last
  counters,  \* ElapsedTimeStats.counters: name -> object id, 0 when absent
  objs,      \* the counter objects created so far, by object id
  lock,      \* lock[o]: the thread holding objs[o]._lock, 0 when free
  th,        \* th[t]: position and locals of recording thread t
  snap,      \* position and locals of the reporting thread
  calls,     \* number of record_delta calls started
  limit,     \* number of record_delta calls the callers make in all
  snaps,     \* number of registry __repr__ calls started
  hist,      \* history: hist[o] = the numbers whose record(o) call has begun
  conc       \* history: conc[o] = two record calls on o have overlapped

vars == <<clock, started, last, counters, objs, lock, th, snap, calls, limit,
          snaps, hist, conc>>

\* Python's None, for the timestamps (which are >= 0)
None == -1

\* Python 2 `a / b` on ints
PyDiv(a, b) == a \div b

\* datetime.datetime.now(): the clock never runs backwards
NowChoices == {c \in {clock, clock + 1} : c <= MaxClock}

\* Counter(name): the fields Counter.__init__ sets
NewPlainCounter(key) ==
  [cls |-> "Counter", name |-> key, first |-> None, last |-> None,
   count |-> 0]

\* a MicrosecondCounter that is given the first name whatever its key is
NewCounterFirstName(key) ==
  [cls |-> "MicrosecondCounter", name |-> NameSeq[1], first |-> None,
   last |-> None, count |-> 0, max |-> 0, min |-> 0, avg |-> 0, mean2 |-> 0,
   stddev2 |-> 0]

\* MicrosecondCounter(name=key): the fields the constructors set
NewCounter(key) ==
  [cls |-> "MicrosecondCounter", name |-> key, first |-> None,
   last |-> None, count |-> 0, max |-> 0, min |-> 0, avg |-> 0, mean2 |-> 0,
   stddev2 |-> 0]

\* locals of a thread that is not inside record_delta
IdleThread ==
  [pc |-> "idle", name |-> NameSeq[1], arg |-> Number(0), value |-> 0,
   d |-> 0, delta |-> 0, count |-> 0, now |-> 0]

\* locals of the reporting thread outside __repr__
IdleSnap ==
  [pc |-> "idle", uptime |-> 0, lastSeen |-> None, keys |-> <<>>, i |-> 0,
   cur |-> <<>>, ret |-> <<>>, err |-> "none"]

\* the state after ElapsedTimeStats() and the counters in `made`, before
\* the callers' k calls
InitWith(k, made) ==
  /\ limit = k
  /\ clock = 0
  /\ started = 0
  /\ last = None
  /\ counters = [n \in Names |-> 0]
  /\ objs = made
  /\ lock = [o \in DOMAIN made |-> 0]
  /\ th = [t \in Threads |-> IdleThread]
  /\ snap = IdleSnap
  /\ calls = 0
  /\ snaps = 0
  /\ hist = [o \in DOMAIN made |-> <<>>]
  /\ conc = [o \in DOMAIN made |-> FALSE]

Init == InitWith(MaxCalls, <<>>)

(* ----------------------- history bookkeeping -------------------------- *)

\* the positions of a thread inside StdDevCounter.record
RecordPcs ==
  {"sd_delta", "c_load", "c_store", "c_last", "c_first", "m_max", "m_min", "m_avg",
   "sd_mean2", "sd_stddev"}

\* threads that are inside record() of object o
Recording(o) == {t \in Threads : th[t].pc \in RecordPcs /\ th[t].d = o}

\* objs[o].record(s) is called: note the sample, when it is a number, and
\* whether the call overlaps another
BeginRecord(o, s) ==
  /\ hist' = [hist EXCEPT ![o] =
                IF s.kind = "number" THEN Append(@, s.value) ELSE @]
  /\ conc' = [conc EXCEPT ![o] = @ \/ Recording(o) # {}]

(* ------------------- ElapsedTimeStats.record_delta -------------------- *)

\* thread t is free to make a call.  The threads are alike, so a new
\* call is given to the lowest thread that is free
CanCall(t) ==
  /\ th[t].pc = "idle"
  /\ calls < limit
  /\ \A u \in Threads : u < t => th[u].pc # "idle"

\* record_delta(name, delta), up to the lookup self.counters[name]: the
\* name is there, and record(delta) is called on the counter found
record_delta_found(t, n, delta) ==
  /\ CanCall(t)
  /\ counters[n] # 0
  /\ calls' = calls + 1
  /\ th' = [th EXCEPT ![t] = [@ EXCEPT !.pc = "sd_delta", !.name = n,
                                        !.arg = delta,
                                        !.value = AsSample(delta).value,
                                        !.d = counters[n]]]
  /\ BeginRecord(counters[n], AsSample(delta))
  /\ UNCHANGED <<limit, clock, started, last, counters, objs, lock, snap, snaps>>

\* record_delta(name, delta), up to the lookup self.counters[name]: the
\* name is missing, and the dict calls __missing__(name)
record_delta_missing(t, n, delta) ==
  /\ CanCall(t)
  /\ counters[n] = 0
  /\ calls' = calls + 1
  /\ th' = [th EXCEPT ![t] = [@ EXCEPT !.pc = "missing_new", !.name = n,
                                        !.arg = delta,
                                        !.value = AsSample(delta).value]]
  /\ UNCHANGED <<limit, clock, started, last, counters, objs, lock, snap, snaps,
                 hist, conc>>

\* ddict.__missing__: d = MicrosecondCounter(name=key)
missing_new(t) ==
  /\ th[t].pc = "missing_new"
  /\ objs' = Append(objs, NewCounter(th[t].name))
  /\ lock' = Append(lock, 0)
  /\ hist' = Append(hist, <<>>)
  /\ conc' = Append(conc, FALSE)
  /\ th' = [th EXCEPT ![t] = [@ EXCEPT !.pc = "missing_set",
                                        !.d = Len(objs) + 1]]
  /\ UNCHANGED <<limit, clock, started, last, counters, snap, calls, snaps>>

\* ddict.__missing__: self[key] = d; return d.  record(delta) is then
\* called on d
missing_set(t) ==
  /\ th[t].pc = "missing_set"
  /\ counters' = [counters EXCEPT ![th[t].name] = th[t].d]
  /\ th' = [th EXCEPT ![t] = [@ EXCEPT !.pc = "sd_delta"]]
  /\ BeginRecord(th[t].d, AsSample(th[t].arg))
  /\ UNCHANGED <<limit, clock, started, last, objs, lock, snap, calls, snaps>>

\* record_delta: datetime.datetime.now() is evaluated ...
record_delta_now(t) ==
  /\ th[t].pc = "rd_now"
  /\ \E c \in NowChoices :
       /\ clock' = c
       /\ th' = [th EXCEPT ![t] = [@ EXCEPT !.pc = "rd_last", !.now = c]]
  /\ UNCHANGED <<limit, started, last, counters, objs, lock, snap, calls, snaps,
                 hist, conc>>

\* ... and stored in self.last; record_delta returns
record_delta_last(t) ==
  /\ th[t].pc = "rd_last"
  /\ last' = th[t].now
  /\ th' = [th EXCEPT ![t] = IdleThread]
  /\ UNCHANGED <<limit, clock, started, counters, objs, lock, snap, calls, snaps,
                 hist, conc>>

(* --------------------------- Counter.record --------------------------- *)

\* a `with self._lock:` that does not wait for the lock
AcquireNoWait(o) == lock[o] \in 0 .. NumThreads

\* `with self._lock:` waits until the lock of counter o is free
Acquire(o) == lock[o] = 0

\* a `with self._lock:` block that is left with the lock still held
KeepLocked(o) == lock

\* the end of a `with self._lock:` block releases the lock of counter o
Release(o) == [lock EXCEPT ![o] = 0]

\* c = Counter('mycounter'); c.record(), called by thread t
Counter_record_call(t) ==
  /\ CanCall(t)
  /\ \E o \in DOMAIN objs :
       /\ objs[o].cls = "Counter"
       /\ th' = [th EXCEPT ![t] = [@ EXCEPT !.pc = "c_load", !.d = o]]
       /\ BeginRecord(o, Number(0))
  /\ calls' = calls + 1
  /\ UNCHANGED <<limit, clock, started, last, counters, objs, lock, snap,
                 snaps>>

\* with self._lock: self.count += 1, the read of self.count
Counter_record_load(t) ==
  LET o == th[t].d IN
  /\ th[t].pc = "c_load"
  /\ Acquire(o)
  /\ lock' = [lock EXCEPT ![o] = t]
  /\ th' = [th EXCEPT ![t] = [@ EXCEPT !.pc = "c_store",
                                        !.count = objs[o].count]]
  /\ UNCHANGED <<limit, clock, started, last, counters, objs, snap, calls,
                 snaps, hist, conc>>

\* self.count += 1, the write of self.count
Counter_record_store(t) ==
  LET o == th[t].d IN
  /\ th[t].pc = "c_store"
  /\ objs' = [objs EXCEPT ![o].count = th[t].count + 1]
  /\ th' = [th EXCEPT ![t] = [@ EXCEPT !.pc = "c_last", !.count = 0]]
  /\ UNCHANGED <<limit, clock, started, last, counters, lock, snap, calls,
                 snaps, hist, conc>>

\* self.last = datetime.datetime.now()
Counter_record_last(t) ==
  LET o == th[t].d IN
  /\ th[t].pc = "c_last"
  /\ \E c \in NowChoices :
       /\ clock' = c
       /\ objs' = [objs EXCEPT ![o].last = c]
  /\ th' = [th EXCEPT ![t].pc = "c_first"]
  /\ UNCHANGED <<limit, started, last, counters, lock, snap, calls, snaps, hist,
                 conc>>

\* if self.first is None: self.first = self.last; the lock is released.
\* Counter.record returns: to its caller when the object is a Counter, into
\* MinMaxAvgCounter.record when that called it
Counter_record_first(t) ==
  LET o == th[t].d IN
  /\ th[t].pc = "c_first"
  /\ objs' = [objs EXCEPT ![o].first =
                IF @ = None THEN objs[o].last ELSE @]
  /\ lock' = Release(o)
  /\ th' = [th EXCEPT ![t] = IF objs[o].cls = "Counter"
                             THEN IdleThread
                             ELSE [@ EXCEPT !.pc = "m_max"]]
  /\ UNCHANGED <<limit, clock, started, last, counters, snap, calls, snaps, hist,
                 conc>>

(* ----------------------- MinMaxAvgCounter.record ---------------------- *)

\* if value > self.max: self.max = value
MaxAfter(c, value) == IF value > c.max THEN value ELSE c.max

\* if value < self.min or 0 == self.min: self.min = value
MinAfter(c, value) == IF value < c.min \/ 0 = c.min THEN value ELSE c.min

\* an average that divides by one more than the number of samples
AvgAfterNextCount(c, value) == c.avg + PyDiv(value - c.avg, c.count + 1)

\* self.avg += ((value - self.avg) / self.count)
AvgAfter(c, value) == c.avg + PyDiv(value - c.avg, c.count)

\* with self._lock: if value > self.max: self.max = value
MinMaxAvg_record_max(t) ==
  LET o == th[t].d IN
  /\ th[t].pc = "m_max"
  /\ Acquire(o)
  /\ lock' = [lock EXCEPT ![o] = t]
  /\ objs' = [objs EXCEPT ![o].max = MaxAfter(objs[o], th[t].value)]
  /\ th' = [th EXCEPT ![t].pc = "m_min"]
  /\ UNCHANGED <<limit, clock, started, last, counters, snap, calls, snaps, hist,
                 conc>>

\* if value < self.min or 0 == self.min: self.min = value
MinMaxAvg_record_min(t) ==
  LET o == th[t].d IN
  /\ th[t].pc = "m_min"
  /\ objs' = [objs EXCEPT ![o].min = MinAfter(objs[o], th[t].value)]
  /\ th' = [th EXCEPT ![t].pc = "m_avg"]
  /\ UNCHANGED <<limit, clock, started, last, counters, lock, snap, calls, snaps,
                 hist, conc>>

\* self.avg += ((value - self.avg) / self.count); the lock is released
MinMaxAvg_record_avg(t) ==
  LET o == th[t].d IN
  /\ th[t].pc = "m_avg"
  /\ objs' = [objs EXCEPT ![o].avg = AvgAfter(objs[o], th[t].value)]
  /\ lock' = Release(o)
  /\ th' = [th EXCEPT ![t].pc = "sd_mean2"]
  /\ UNCHANGED <<limit, clock, started, last, counters, snap, calls, snaps, hist,
                 conc>>

(* ------------------------ StdDevCounter.record ------------------------ *)

\* self._mean2 += delta * (value - self.avg)
Mean2After(c, delta, value) == c.mean2 + delta * (value - c.avg)

\* if self.count > 2: self.stddev = math.sqrt(self._mean2 / self.count).
\* The field stddev2 holds the number whose square root stddev is.
Stddev2After(c) == IF c.count > 2 THEN PyDiv(c.mean2, c.count) ELSE c.stddev2

\* math.sqrt(self._mean2 / self.count) is asked for the root of a negative
\* number
SqrtFails(c) == c.count > 2 /\ PyDiv(c.mean2, c.count) < 0

\* delta = value - self.avg (read without the lock), value a number
StdDev_record_delta(t) ==
  LET o == th[t].d IN
  /\ th[t].pc = "sd_delta"
  /\ AsSample(th[t].arg).kind = "number"
  /\ th' = [th EXCEPT ![t] = [@ EXCEPT !.pc = "c_load",
                                        !.arg = Number(0),
                                        !.delta = th[t].value - objs[o].avg]]
  /\ UNCHANGED <<limit, clock, started, last, counters, objs, lock, snap, calls,
                 snaps, hist, conc>>

\* delta = value - self.avg, value a str: TypeError, which leaves record and
\* record_delta
StdDev_record_delta_raise(t) ==
  /\ th[t].pc = "sd_delta"
  /\ AsSample(th[t].arg).kind = "str"
  /\ th' = [th EXCEPT ![t] = IdleThread]
  /\ UNCHANGED <<limit, clock, started, last, counters, objs, lock, snap, calls,
                 snaps, hist, conc>>

\* with self._lock: self._mean2 += delta * (value - self.avg)
StdDev_record_mean2(t) ==
  LET o == th[t].d IN
  /\ th[t].pc = "sd_mean2"
  /\ Acquire(o)
  /\ lock' = [lock EXCEPT ![o] = t]
  /\ objs' = [objs EXCEPT ![o].mean2 =
                Mean2After(objs[o], th[t].delta, th[t].value)]
  /\ th' = [th EXCEPT ![t].pc = "sd_stddev"]
  /\ UNCHANGED <<limit, clock, started, last, counters, snap, calls, snaps, hist,
                 conc>>

\* if self.count > 2: self.stddev = math.sqrt(...); the lock is released and
\* record returns to record_delta
StdDev_record_stddev(t) ==
  LET o == th[t].d IN
  /\ th[t].pc = "sd_stddev"
  /\ ~SqrtFails(objs[o])
  /\ objs' = [objs EXCEPT ![o].stddev2 = Stddev2After(objs[o])]
  /\ lock' = Release(o)
  /\ th' = [th EXCEPT ![t].pc = "rd_now"]
  /\ UNCHANGED <<limit, clock, started, last, counters, snap, calls, snaps, hist,
                 conc>>

\* math.sqrt raises ValueError: the `with` releases the lock, and the
\* exception leaves record and record_delta
StdDev_record_stddev_raise(t) ==
  LET o == th[t].d IN
  /\ th[t].pc = "sd_stddev"
  /\ SqrtFails(objs[o])
  /\ lock' = Release(o)
  /\ th' = [th EXCEPT ![t] = IdleThread]
  /\ UNCHANGED <<limit, clock, started, last, counters, objs, snap, calls,
                 snaps, hist, conc>>

(* ---------------------- ElapsedTimeStats.__repr__ --------------------- *)

\* position of a name in the ascending order of names
Rank(n) == CHOOSE i \in 1 .. Len(NameSeq) : NameSeq[i] = n

\* self.counters.keys(): the names present, in the dict's own order
KeyLists ==
  LET present == {n \in Names : counters[n] # 0} IN
  {k \in [1 .. Cardinality(present) -> present] :
     \A i, j \in DOMAIN k : i # j => k[i] # k[j]}

\* the keys left in the dict's own order
KeepOrder(k) == k

\* keys.sort()
SortKeys(k) == SortSeq(k, LAMBDA x, y : Rank(x) < Rank(y))

\* what the reporting thread has read of the counter it is rendering
NewSegment(o) ==
  [obj |-> o, count |-> 0, first |-> None, last |-> None, min |-> 0,
   avg |-> 0, max |-> 0, stddev2 |-> 0]

\* __repr__ is called: now = datetime.datetime.now(); the uptime segment
repr_now ==
  /\ snap.pc \in {"idle", "done", "failed"}
  /\ snaps < MaxSnapshots
  /\ snaps' = snaps + 1
  /\ \E c \in NowChoices :
       /\ clock' = c
       /\ snap' = [IdleSnap EXCEPT !.pc = "s_last", !.uptime = c - started]
  /\ UNCHANGED <<limit, started, last, counters, objs, lock, th, calls, hist, conc>>

\* "last=%s" % self.last.isoformat(): AttributeError when self.last is None
repr_last ==
  /\ snap.pc = "s_last"
  /\ \/ /\ last # None
        /\ snap' = [snap EXCEPT !.pc = "s_keys", !.lastSeen = last]
     \/ /\ last = None
        /\ snap' = [snap EXCEPT !.pc = "failed", !.err = "registry_last"]
  /\ UNCHANGED <<limit, clock, started, last, counters, objs, lock, th, calls,
                 snaps, hist, conc>>

\* keys = self.counters.keys(); keys.sort(); the loop ends at once when there
\* are no keys
repr_keys ==
  /\ snap.pc = "s_keys"
  /\ \E k \in KeyLists :
       snap' = [snap EXCEPT !.keys = SortKeys(k), !.i = 1,
                            !.pc = IF k = <<>> THEN "done" ELSE "s_get"]
  /\ UNCHANGED <<limit, clock, started, last, counters, objs, lock, th, calls,
                 snaps, hist, conc>>

\* for k in keys: self.counters[k], whose rendering begins
repr_get ==
  /\ snap.pc = "s_get"
  /\ snap' = [snap EXCEPT !.cur = NewSegment(counters[snap.keys[snap.i]]),
                          !.pc = "r_count"]
  /\ UNCHANGED <<limit, clock, started, last, counters, objs, lock, th, calls,
                 snaps, hist, conc>>

\* Counter.__repr__: self.count
Counter_repr_count ==
  /\ snap.pc = "r_count"
  /\ snap' = [snap EXCEPT !.cur.count = objs[snap.cur.obj].count, !.pc = "r_first"]
  /\ UNCHANGED <<limit, clock, started, last, counters, objs, lock, th, calls,
                 snaps, hist, conc>>

\* Counter.__repr__: self.first.isoformat(): AttributeError on None
Counter_repr_first ==
  /\ snap.pc = "r_first"
  /\ \/ /\ objs[snap.cur.obj].first # None
        /\ snap' = [snap EXCEPT !.cur.first = objs[snap.cur.obj].first,
                                !.pc = "r_last"]
     \/ /\ objs[snap.cur.obj].first = None
        /\ snap' = [snap EXCEPT !.pc = "failed", !.err = "counter_first"]
  /\ UNCHANGED <<limit, clock, started, last, counters, objs, lock, th, calls,
                 snaps, hist, conc>>

\* Counter.__repr__: self.last.isoformat().  self.last is set before
\* self.first is, so it is not None here
Counter_repr_last ==
  /\ snap.pc = "r_last"
  /\ objs[snap.cur.obj].last # None
  /\ snap' = [snap EXCEPT !.cur.last = objs[snap.cur.obj].last, !.pc = "r_min"]
  /\ UNCHANGED <<limit, clock, started, last, counters, objs, lock, th, calls,
                 snaps, hist, conc>>

\* MinMaxAvgCounter.__repr__: self.min / self._scale
MinMaxAvg_repr_min ==
  /\ snap.pc = "r_min"
  /\ snap' = [snap EXCEPT !.cur.min = objs[snap.cur.obj].min, !.pc = "r_avg"]
  /\ UNCHANGED <<limit, clock, started, last, counters, objs, lock, th, calls,
                 snaps, hist, conc>>

\* MinMaxAvgCounter.__repr__: self.avg / self._scale
MinMaxAvg_repr_avg ==
  /\ snap.pc = "r_avg"
  /\ snap' = [snap EXCEPT !.cur.avg = objs[snap.cur.obj].avg, !.pc = "r_max"]
  /\ UNCHANGED <<limit, clock, started, last, counters, objs, lock, th, calls,
                 snaps, hist, conc>>

\* MinMaxAvgCounter.__repr__: self.max / self._scale
MinMaxAvg_repr_max ==
  /\ snap.pc = "r_max"
  /\ snap' = [snap EXCEPT !.cur.max = objs[snap.cur.obj].max, !.pc = "r_stddev"]
  /\ UNCHANGED <<limit, clock, started, last, counters, objs, lock, th, calls,
                 snaps, hist, conc>>

\* StdDevCounter.__repr__: self.stddev / self._scale; the segment is
\* appended to ret and the loop goes on, or "&".join(ret) is returned
StdDev_repr_stddev ==
  /\ snap.pc = "r_stddev"
  /\ LET seg == [snap.cur EXCEPT !.stddev2 = objs[snap.cur.obj].stddev2] IN
     snap' = [snap EXCEPT !.cur = seg, !.ret = Append(@, seg),
                          !.i = @ + 1,
                          !.pc = IF snap.i = Len(snap.keys)
                                 THEN "done" ELSE "s_get"]
  /\ UNCHANGED <<limit, clock, started, last, counters, objs, lock, th, calls,
                 snaps, hist, conc>>

(* --------------------------- specification ---------------------------- *)

\* thread t calls record_delta with a name of N and an argument of D
RecordCall(t, N, D) ==
  \/ \E n \in N, delta \in D : record_delta_found(t, n, delta)
  \/ \E n \in N, delta \in D : record_delta_missing(t, n, delta)

\* a step of recording thread t inside a call
RecordBody(t) ==
  \/ missing_new(t)
  \/ missing_set(t)
  \/ StdDev_record_delta(t)
  \/ Counter_record_load(t)
  \/ Counter_record_store(t)
  \/ Counter_record_last(t)
  \/ Counter_record_first(t)
  \/ MinMaxAvg_record_max(t)
  \/ MinMaxAvg_record_min(t)
  \/ MinMaxAvg_record_avg(t)
  \/ StdDev_record_mean2(t)
  \/ StdDev_record_stddev(t)
  \/ record_delta_now(t)
  \/ record_delta_last(t)

\* a step of recording thread t, whose callers pass ints
RecordStep(t) == RecordCall(t, Names, RawDeltas) \/ RecordBody(t)

\* a step of the reporting thread
ReprStep ==
  \/ repr_now
  \/ repr_last
  \/ repr_keys
  \/ repr_get
  \/ Counter_repr_count
  \/ Counter_repr_first
  \/ Counter_repr_last
  \/ MinMaxAvg_repr_min
  \/ MinMaxAvg_repr_avg
  \/ MinMaxAvg_repr_max
  \/ StdDev_repr_stddev

\* recording threads and the reporting thread, interleaved
Next == (\E t \in Threads : RecordStep(t)) \/ ReprStep

Spec == Init /\ [][Next]_vars

\* recording threads only
RecordNext == \E t \in Threads : RecordStep(t)

RecordSpec == Init /\ [][RecordNext]_vars

\* one thread that calls record_delta MaxSeqCalls times, one call after the
\* other
SeqInit == InitWith(MaxSeqCalls, <<>>)

SeqNext == RecordStep(1)

SeqSpec == SeqInit /\ [][SeqNext]_vars

\* c = Counter('mycounter'), and threads that call c.record()
CounterInit == InitWith(MaxCounterCalls, <<NewPlainCounter("mycounter")>>)

CounterNext ==
  \E t \in Threads :
    \/ Counter_record_call(t)
    \/ Counter_record_load(t)
    \/ Counter_record_store(t)
    \/ Counter_record_last(t)
    \/ Counter_record_first(t)

CounterSpec == CounterInit /\ [][CounterNext]_vars

\* one recording thread and the reporting thread, interleaved
ReportNext ==
  \/ RecordCall(1, Names, ReportDeltas)
  \/ RecordBody(1)
  \/ ReprStep

ReportSpec == Init /\ [][ReportNext]_vars

\* recording threads whose callers all pass the same int
PairNext ==
  \E t \in Threads : RecordCall(t, Names, ReportDeltas) \/ RecordBody(t)

PairSpec == Init /\ [][PairNext]_vars

\* the recording threads of PairSpec and the reporting thread, with a
\* scheduler that lets every thread that can take a step take one in the end
FairNext == PairNext \/ ReprStep

FairSpec ==
  /\ Init
  /\ [][FairNext]_vars
  /\ \A t \in Threads : WF_vars(RecordBody(t))
  /\ WF_vars(ReprStep)

\* one thread that calls record_delta MaxArgCalls times, one call after the
\* other, with ints, timedeltas and strs
ArgInit == InitWith(MaxArgCalls, <<>>)

ArgNext ==
  \/ RecordCall(1, Names, RawDeltas \cup Timedeltas \cup BadDeltas)
  \/ RecordBody(1)
  \/ StdDev_record_delta_raise(1)

ArgSpec == ArgInit /\ [][ArgNext]_vars

\* threads that make MaxVarCalls calls of record_delta in all, for one name
VarInit == InitWith(MaxVarCalls, <<>>)

VarNext ==
  \E t \in Threads :
    \/ RecordCall(t, {NameSeq[1]}, VarDeltas)
    \/ RecordBody(t)
    \/ StdDev_record_stddev_raise(t)

VarSpec == VarInit /\ [][VarNext]_vars

(* ------------------------------ claims -------------------------------- *)

\* no thread is inside record_delta or Counter.record
AllIdle == \A t \in Threads : th[t].pc = "idle"

\* the record calls on counter o that have begun and not yet incremented
\* self.count
BeforeIncrement(o) ==
  {t \in Recording(o) : th[t].pc \in {"sd_delta", "c_load", "c_store"}}

\* C1: on every counter object, whatever the interleaving of the record
\* calls of the threads, count is the number of record calls made on it less
\* those that have not yet done their increment; so, once the calls are
\* over, count is the number of record calls made.
C1_NoLostIncrement ==
  \A o \in DOMAIN objs :
    objs[o].count = Len(hist[o]) - Cardinality(BeforeIncrement(o))

\* record calls on one counter have overlapped and are over
C1_Witness ==
  \E o \in DOMAIN objs :
    /\ conc[o]
    /\ Recording(o) = {}
    /\ Len(hist[o]) >= 3
    /\ objs[o].count = Len(hist[o])

\* the objects of name n
Instances(n) == {o \in DOMAIN objs : objs[o].name = n}

RECURSIVE SumOver(_, _)
\* the sum of f[o] over the objects o of the set S
SumOver(f, S) ==
  IF S = {} THEN 0
  ELSE LET o == CHOOSE x \in S : TRUE IN f[o] + SumOver(f, S \ {o})

\* the number of record calls made for name n, once no call is under way:
\* each one has called record on an object of that name
CallsFor(n) == SumOver([o \in DOMAIN objs |-> Len(hist[o])], Instances(n))

\* C2: for every name at most one counter object is ever created, and once
\* all record_delta calls are over the counter the registry holds under the
\* name has counted every call made for the name.
C2_OneCounterPerName ==
  /\ \A n \in Names : Cardinality(Instances(n)) <= 1
  /\ AllIdle =>
       \A n \in Names :
         counters[n] # 0 => objs[counters[n]].count = CallsFor(n)

(* what record does when nothing else runs *)

\* StdDevCounter.record(value) on the fields c, run from its first statement
\* to its last with no other thread in between
RecordAlone(c, value) ==
  LET delta == value - c.avg
      c1 == [c EXCEPT !.count = @ + 1]
      c2 == [c1 EXCEPT !.max = MaxAfter(c1, value),
                       !.min = MinAfter(c1, value),
                       !.avg = AvgAfter(c1, value)]
      c3 == [c2 EXCEPT !.mean2 = Mean2After(c2, delta, value)]
  IN [c3 EXCEPT !.stddev2 = Stddev2After(c3)]

RECURSIVE RecordAll(_, _)
\* the calls record(s[1]), record(s[2]), ... made one after the other on c
RecordAll(c, s) ==
  IF s = <<>> THEN c ELSE RecordAll(RecordAlone(c, Head(s)), Tail(s))

\* the fields record computes
Aggregate(c) == <<c.count, c.min, c.max, c.avg, c.mean2>>

\* the ways of taking k of the samples of h, in any order
Selections(h, k) ==
  {[i \in 1 .. k |-> h[f[i]]] :
     f \in {g \in [1 .. k -> 1 .. Len(h)] :
              \A i, j \in 1 .. k : i # j => g[i] # g[j]}}

\* the orders in which all the record calls of h can be made
Orders(h) == Selections(h, Len(h))

\* C3: record calls on one counter are atomic: once they are over, count,
\* min, max, avg and _mean2 are what the same calls give when made one
\* after the other in some order.
C3_RecordAtomic ==
  \A o \in DOMAIN objs :
    (objs[o].cls = "MicrosecondCounter" /\ Recording(o) = {}) =>
      \E s \in Orders(hist[o]) :
        Aggregate(objs[o]) = Aggregate(RecordAll(NewCounter(objs[o].name), s))

\* the fields a rendering shows
Rendered(c) == <<c.count, c.min, c.avg, c.max, c.stddev2>>

\* C4: the count, min, avg, max and stddev a rendering of a counter shows
\* are those of the counter after some whole number of the record calls made
\* on it.
C4_RenderConsistent ==
  \A i \in 1 .. Len(snap.ret) :
    LET seg == snap.ret[i] IN
    \E k \in 0 .. Len(hist[seg.obj]) :
      \E s \in Selections(hist[seg.obj], k) :
        Rendered(seg) = Rendered(RecordAll(NewCounter("a"), s))

\* the positions of the reporting thread inside the rendering of a counter
RenderPcs ==
  {"r_count", "r_first", "r_last", "r_min", "r_avg", "r_max", "r_stddev"}

\* C5: the registry's __repr__ never renders a counter that is in the
\* registry with no sample recorded yet, and it never fails on a counter.
C5_NoEmptyCounterRendered ==
  /\ snap.pc \in RenderPcs =>
       ~(objs[snap.cur.obj].count = 0 /\ objs[snap.cur.obj].first = None)
  /\ snap.err # "counter_first"

\* C6: __repr__ of a registry on which record_delta was never called does
\* not fail, and returns the uptime and last segments alone.
C6_EmptySnapshotSucceeds ==
  calls = 0 =>
    /\ snap.pc # "failed"
    /\ snap.pc = "done" => snap.ret = <<>>

RECURSIVE SeqMin(_)
\* the smallest element of a non-empty sequence
SeqMin(s) ==
  IF Len(s) = 1 THEN s[1]
  ELSE LET m == SeqMin(Tail(s)) IN IF s[1] < m THEN s[1] ELSE m

RECURSIVE SeqMax(_)
\* the largest element of a non-empty sequence
SeqMax(s) ==
  IF Len(s) = 1 THEN s[1]
  ELSE LET m == SeqMax(Tail(s)) IN IF s[1] > m THEN s[1] ELSE m

RECURSIVE SeqSum(_)
\* the sum of the elements of a sequence
SeqSum(s) == IF s = <<>> THEN 0 ELSE s[1] + SeqSum(Tail(s))

\* the counters whose record calls were made one after the other, are over,
\* and were at least one
AfterSequentialCalls(o) ==
  /\ objs[o].cls = "MicrosecondCounter"
  /\ ~conc[o]
  /\ Recording(o) = {}
  /\ hist[o] # <<>>

\* C7: after record calls made one after the other, min is the smallest of
\* the samples recorded.
C7_MinIsSmallest ==
  \A o \in DOMAIN objs :
    AfterSequentialCalls(o) => objs[o].min = SeqMin(hist[o])

\* C8: after record calls made one after the other, max is the largest of
\* the samples recorded.
C8_MaxIsLargest ==
  \A o \in DOMAIN objs :
    AfterSequentialCalls(o) => objs[o].max = SeqMax(hist[o])

\* C9: after N record calls made one after the other, avg is the arithmetic
\* mean of the N samples: avg times N is their sum.
C9_AvgIsMean ==
  \A o \in DOMAIN objs :
    AfterSequentialCalls(o) =>
      objs[o].avg * Len(hist[o]) = SeqSum(hist[o])

\* C10: whenever count >= 1 and no record call is under way on a counter,
\* min <= avg <= max.
C10_MinAvgMax ==
  \A o \in DOMAIN objs :
    (objs[o].cls = "MicrosecondCounter" /\ objs[o].count >= 1
       /\ Recording(o) = {}) =>
      (objs[o].min <= objs[o].avg /\ objs[o].avg <= objs[o].max)

RECURSIVE SeqSumSq(_)
\* the sum of the squares of the elements of a sequence
SeqSumSq(s) == IF s = <<>> THEN 0 ELSE s[1] * s[1] + SeqSumSq(Tail(s))

\* C11: after more than two record calls made one after the other, the
\* square of stddev times count is the sum of the squared deviations of the
\* samples from their mean. With N samples of sum S and sum of squares Q that
\* sum is Q - S*S/N, so the equation is stddev^2 * N * N = N*Q - S*S.
C11_StdDevIsPopulation ==
  \A o \in DOMAIN objs :
    (AfterSequentialCalls(o) /\ Len(hist[o]) > 2) =>
      objs[o].stddev2 * Len(hist[o]) * Len(hist[o])
        = Len(hist[o]) * SeqSumSq(hist[o]) - SeqSum(hist[o]) * SeqSum(hist[o])

\* the samples of a sequence are all the same
AllSame(s) == \A i \in DOMAIN s : s[i] = s[1]

\* C15: after n >= 1 record_delta calls made one after the other for one name
\* with the same value c, count is n and avg is exactly c.
C15_ConstantSample ==
  \A o \in DOMAIN objs :
    (AfterSequentialCalls(o) /\ AllSame(hist[o])) =>
      (objs[o].count = Len(hist[o]) /\ objs[o].avg = hist[o][1])

\* three calls with the value 2 were made for one name and are over
C15_Witness ==
  \E o \in DOMAIN objs :
    /\ AfterSequentialCalls(o)
    /\ hist[o] = <<2, 2, 2>>
    /\ AllIdle

\* count and the two timestamps of a counter agree
CountAndTimestamps(c) ==
  /\ c.count = 0 => (c.first = None /\ c.last = None)
  /\ c.count > 0 => (c.first # None /\ c.last # None /\ c.first <= c.last)

\* a step leaves the first of every counter that has one as it is
FirstKept ==
  \A o \in DOMAIN objs : objs[o].first # None => objs'[o].first = objs[o].first

\* C16: in every reachable state, under any interleaving of record calls,
\* every counter has count = 0 => first and last unset, and count > 0 => both
\* set with first <= last; and first, once set, is never changed.
C16_CountAndTimestamps ==
  /\ [](\A o \in DOMAIN objs : CountAndTimestamps(objs[o]))
  /\ [][FirstKept]_vars

\* with no record_delta call under way, the registry's last is set once a
\* call was made and is not before the last of any counter of the registry
LastIsMostRecent ==
  AllIdle =>
    /\ calls > 0 => last # None
    /\ \A n \in Names :
         counters[n] # 0 => last >= objs[counters[n]].last

C18_NonNegative ==
  /\ \A o \in DOMAIN objs :
       objs[o].cls = "MicrosecondCounter" =>
         (objs[o].mean2 >= 0 /\ objs[o].stddev2 >= 0)
  /\ \A t \in Threads :
       th[t].pc = "sd_stddev" => ~SqrtFails(objs[th[t].d])

\* the whole length of a timedelta, in microseconds
TotalMicroseconds(d) ==
  (d.days * 86400 + d.seconds) * 1000000 + d.microseconds

\* C13: when record_delta is given a timedelta, of any length, one second or
\* more included, the sample it passes to the counter's record is the whole
\* length of the timedelta in microseconds; an int is passed unchanged.
C13_ForwardedSample ==
  \A t \in Threads :
    th[t].pc = "sd_delta" =>
      /\ th[t].arg.kind = "timedelta" =>
           th[t].value = TotalMicroseconds(th[t].arg)
      /\ th[t].arg.kind = "number" => th[t].value = th[t].arg.value

\* C14: a record_delta call that fails leaves the shared state as it was
\* before the call.  For calls made one after the other: between calls, every
\* name of the registry has had a numeric sample recorded, and its counter
\* holds what the calls with numeric samples alone produce.
C14_FailedCallLeavesNoTrace ==
  AllIdle =>
    \A n \in Names :
      counters[n] # 0 =>
        LET o == counters[n]
            c == RecordAll(NewCounter(n), hist[o])
        IN /\ hist[o] # <<>>
           /\ Aggregate(objs[o]) = Aggregate(c)
           /\ objs[o].stddev2 = c.stddev2

\* the names of the registry
Present == {n \in Names : counters[n] # 0}

\* the reporting thread has taken and sorted the keys
KeysTaken == snap.pc \in RenderPcs \cup {"s_get", "done"}

\* the keys the reporting thread goes through are in ascending order, each
\* once; and when __repr__ returns it has appended one segment for each of
\* them, in that order, the segment of the counter of that name
SegmentsInOrder ==
  /\ KeysTaken =>
       \A i, j \in DOMAIN snap.keys :
         i < j => Rank(snap.keys[i]) < Rank(snap.keys[j])
  /\ snap.pc = "done" =>
       /\ Len(snap.ret) = Len(snap.keys)
       /\ \A i \in DOMAIN snap.ret :
            objs[snap.ret[i].obj].name = snap.keys[i]

\* the step that takes the keys takes every name of the registry
AllKeysTaken ==
  (snap.pc = "s_keys" /\ snap'.pc # "s_keys") =>
    {snap'.keys[i] : i \in DOMAIN snap'.keys} = Present

\* C12: __repr__ emits, after uptime and last, the segment of each entry
\* exactly once, in ascending order of the names, whatever the order in which
\* the entries were created.
C12_SortedSegments ==
  /\ []SegmentsInOrder
  /\ [][AllKeysTaken]_vars

\* __repr__ has returned the segments of a and b, in that order, and the
\* counter of b was created before the counter of a
C12_Witness ==
  /\ snap.pc = "done"
  /\ Len(snap.ret) = 2
  /\ snap.keys = NameSeq
  /\ snap.ret[2].obj < snap.ret[1].obj

\* every key of the registry maps to a counter of that name
KeysNameCounters ==
  \A k \in Present : objs[counters[k]].name = k

\* a step removes no key
KeysKept == \A k \in Present : counters'[k] # 0

\* the name of the record_delta call thread t is in, before or after a step
CallName(t) == IF th[t].pc = "idle" THEN th'[t].name ELSE th[t].name

\* a step of a record_delta call for name X leaves the counter stored under
\* every other name, and what the name maps to, as they were
OtherNamesKept ==
  \A t \in Threads :
    th'[t] # th[t] =>
      \A k \in Names \ {CallName(t)} :
        /\ counters'[k] = counters[k]
        /\ counters[k] # 0 => objs'[counters[k]] = objs[counters[k]]

\* C20: in every reachable state every key k of the registry maps to a
\* counter whose name is k; the set of keys only grows; and a record_delta
\* for name X leaves the counters stored under every other name unchanged.
C20_RegistryFrame ==
  /\ []KeysNameCounters
  /\ [][KeysKept /\ OtherNamesKept]_vars

\* calls for both names were made and are over: both names are in the
\* registry, each with a counter that has a sample
C20_Witness ==
  /\ Present = Names
  /\ AllIdle
  /\ \A k \in Names : objs[counters[k]].count > 0

\* the positions at which a thread is about to enter `with self._lock:`
AcquirePcs == {"c_load", "m_max", "sd_mean2"}

\* the positions of a thread inside a `with self._lock:` block
LockedPcs == {"c_store", "c_last", "c_first", "m_min", "m_avg", "sd_stddev"}

\* a thread asks for a lock only when it does not hold it, holds a lock only
\* inside a `with` block of its call, and some thread inside a call can
\* always take a step
LocksNotNested ==
  /\ \A t \in Threads :
       th[t].pc \in AcquirePcs => lock[th[t].d] # t
  /\ \A o \in DOMAIN lock :
       lock[o] # 0 =>
         (th[lock[o]].pc \in LockedPcs /\ th[lock[o]].d = o)
  /\ (\E t \in Threads : th[t].pc # "idle") =>
       \E t \in Threads : ENABLED RecordBody(t)

\* thread t is inside a record_delta call
InCall(t) == th[t].pc # "idle"

\* the reporting thread is inside __repr__
InRepr == snap.pc \notin {"idle", "done", "failed"}

\* C19: no record or __repr__ call blocks for ever: a call never asks for a
\* lock it holds (the three `with self._lock:` blocks of a record come one
\* after the other), the threads never deadlock, and under fair scheduling
\* every call that has started comes to its end, with no lock left held.
C19_NoBlocking ==
  /\ []LocksNotNested
  /\ \A t \in Threads : InCall(t) ~> (~InCall(t) /\ \A o \in DOMAIN lock : lock[o] # t)
  /\ InRepr ~> ~InRepr

\* a thread waits for the lock of a counter that another thread holds
C19_Witness ==
  \E t \in Threads :
    /\ th[t].pc \in AcquirePcs
    /\ lock[th[t].d] \notin {0, t}

=============================================================================
